---- MODULE Spec2Model ----
(***************************************************************************)
(* Token lifecycle and request-interception protocol of keybag-client.     *)
(*                                                                         *)
(*   src/vite.config.ts              the axios instance: CSRF cache,       *)
(*                                   request interceptor, response         *)
(*                                   interceptor (498 refresh coordinator) *)
(*   src/src/utils/authTokenUtils.tsx  getAuthToken (bounded retry), its   *)
(*                                   own CSRF cache, PrivateRoute guard    *)
(*                                                                         *)
(* JavaScript runs the handlers on one event loop: an action is the code   *)
(* a handler runs between two suspension points that wait for the network  *)
(* or a timer.                                                             *)
(***************************************************************************)
EXTENDS Integers, Sequences, FiniteSets

\* ---------------------------------------------------------------- bounds
NReq == 2                       \* requests the application issues (Spec)
NHerd == 3                      \* requests issued together (SpecHerd)
NPeers == 1                     \* application requests beside the guard (SpecGuard)

\* ------------------------------------------------------------- constants
maxRetries == 2                 \* authTokenUtils.tsx:41
Expired == 498                  \* vite.config.ts:113
FailStatuses == {498, 500}      \* error statuses: session expired, anything else

Null == "null"                  \* null / undefined / header not set
Tokens == {"T1", "T2"}          \* bearer tokens the backend hands out
MaybeToken == Tokens \cup {Null}

Max(a, b) == IF a >= b THEN a ELSE b
NApp == Max(NReq, Max(NHerd, NPeers))
GTok == NApp + 1                \* PrivateRoute: axiosInstance.get('/auth/get-token')
GChk == NApp + 2                \* PrivateRoute: axiosInstance.get('/account/check-auth')
Slots == 1 .. (NApp + 2)        \* 1 .. NApp: requests issued by application code

VARIABLES
    cookie,          \* document.cookie: "none" | "ok" | "bad" (XSRF-TOKEN absent,
                     \*   present, present with malformed percent-encoding)
    axCsrfCache,     \* vite.config.ts:23   csrfTokenCache (TRUE = a value is cached)
    utCsrfCache,     \* authTokenUtils.tsx:6 csrfTokenCache
    cookieReads,     \* history: getCookieByName calls that found and decoded XSRF-TOKEN
    authTokenCache,  \* authTokenUtils.tsx:3
    firstTok,        \* history: the token the first successful getAuthToken cached
    defaultAuth,     \* axiosInstance.defaults.headers['Authorization']
    isRefreshing,    \* vite.config.ts:64
    failedQueue,     \* vite.config.ts:65, the slots whose promise is parked
    refreshCalls,    \* history: POSTs to /auth/refresh-token issued
    redirects,       \* history: assignments window.location.href = '/login'
    late498,         \* history: a first 498 was handled after a refresh call had returned
    req,             \* per slot: the request config, where it is, what its caller got
    guard            \* PrivateRoute: effect state

csrfVars == <<axCsrfCache, utCsrfCache, cookieReads>>
tokenVars == <<authTokenCache, firstTok>>
refreshVars == <<defaultAuth, isRefreshing, failedQueue, refreshCalls, redirects,
                 late498>>
vars == <<cookie, csrfVars, tokenVars, refreshVars, req, guard>>

\* A request that has not been issued.
\*   pc      "idle" | "fetch" (getAuthToken awaits fetch) | "delay" (retry timer)
\*           | "net" (on the wire) | "refresh" (handler awaits the refresh POST)
\*           | "queued" (promise parked in failedQueue) | "done"
\*   retry   _retry                    auth   headers['Authorization']
\*   csrf    headers['X-CSRF-Token'] is set
\*   attempt getAuthToken's loop variable
\*   ga      how the request interceptor's getAuthToken call ended:
\*           "none" (running) | "hit" (cache) | "ok" (fetched) | "null" (gave up)
\*   out     what the caller's promise settled with: "none" | "response" | "token"
\*           (the bare token string) | "rejected" | "aborted" (request interceptor)
\*   err     the slot whose error a rejection carries, st that error's status
\*   data    response.data.token
\* history: sends  times put on the wire;  gaN  fetches the getAuthToken call
\*          issued;  delays  retry delays it waited;  trig  refresh calls it started;
\*          q  "ok" | "fail" once processQueue resolved | rejected it, else "no";
\*          ord  its turn in the forEach of the processQueue call that settled it
NewReq ==
    [pc |-> "idle", retry |-> FALSE, auth |-> Null, csrf |-> FALSE, attempt |-> 0,
     ga |-> "none", out |-> "none", err |-> 0, st |-> 0, data |-> Null,
     sends |-> 0, gaN |-> 0, delays |-> 0, trig |-> 0, q |-> "no", ord |-> 0]

Init ==
    /\ cookie \in {"none", "ok", "bad"}
    /\ axCsrfCache = FALSE
    /\ utCsrfCache = FALSE
    /\ cookieReads = 0
    /\ authTokenCache = Null
    /\ firstTok = Null
    /\ defaultAuth = Null
    /\ isRefreshing = FALSE
    /\ failedQueue = <<>>
    /\ refreshCalls = 0
    /\ redirects = 0
    /\ late498 = FALSE
    /\ req = [s \in Slots |-> NewReq]
    /\ guard = [pc |-> "init", isMounted |-> FALSE, isAuthenticated |-> "null", navs |-> 0]

\* The page after an earlier request has fetched and cached the auth token: both
\* CSRF lookups have run, no request is open.
InitCached ==
    /\ cookie \in {"none", "ok"}
    /\ axCsrfCache = (cookie = "ok")
    /\ utCsrfCache = (cookie = "ok")
    /\ cookieReads = (IF cookie = "ok" THEN 2 ELSE 0)
    /\ authTokenCache \in Tokens
    /\ firstTok = authTokenCache
    /\ defaultAuth = Null
    /\ isRefreshing = FALSE
    /\ failedQueue = <<>>
    /\ refreshCalls = 0
    /\ redirects = 0
    /\ late498 = FALSE
    /\ req = [s \in Slots |-> NewReq]
    /\ guard = [pc |-> "init", isMounted |-> FALSE, isAuthenticated |-> "null", navs |-> 0]

\* The caller's promise is settled: the config object and the locals of the
\* handlers are unreachable from then on, what stays is what the caller got.
Settled(c, out, err, st, d) ==
    [NewReq EXCEPT !.pc = "done", !.out = out, !.err = err, !.st = st, !.data = d,
                   !.retry = c.retry, !.sends = c.sends, !.trig = c.trig]

\* The promise returned at lines 116-118 holds resolve and reject only.
Parked(c) == [NewReq EXCEPT !.pc = "queued", !.sends = c.sends]

\* The handler awaits the refresh POST holding originalRequest (lines 121-129).
Awaiting(c) ==
    [NewReq EXCEPT !.pc = "refresh", !.retry = TRUE, !.auth = c.auth, !.csrf = c.csrf,
                   !.sends = c.sends, !.trig = c.trig + 1]

\* ------------------------------------------------------------ CSRF lookup
\* getCookieByName("XSRF-TOKEN"): TRUE when it returns a value. With a malformed
\* value decodeURIComponent throws; CookieThrows says so.
getCookieByName == cookie = "ok"
CookieThrows == cookie = "bad"

\* getCsrfToken on one of the two caches: the cache after the call, the cookie
\* reads the call makes, whether it throws.
CsrfCacheAfter(cache) == cache \/ getCookieByName
CsrfReads(cache) == IF ~cache /\ getCookieByName THEN 1 ELSE 0
CsrfThrows(cache) == ~cache /\ CookieThrows

\* getAuthToken line 38: the fast path.
CacheHit == authTokenCache # Null

\* An off-by-one loop bound.
RetryAgain_OffByOne(attempt) == attempt <= maxRetries

\* getAuthToken lines 44 and 70: another attempt follows.
RetryAgain(attempt) == attempt < maxRetries

\* ------------------------------------------------------- request interceptor
\* An interceptor that rejects the request when a credential is absent.
Send_AbortWhenAbsent(c, csrfToken, authToken) ==
    IF ~csrfToken \/ authToken = Null
    THEN [NewReq EXCEPT !.pc = "done", !.out = "aborted", !.sends = c.sends]
    ELSE [c EXCEPT !.pc = "net", !.csrf = TRUE, !.auth = authToken, !.sends = @ + 1]

\* Lines 92-95: the headers are set and the config is put on the wire.
Send(c, csrfToken, authToken) ==
    [c EXCEPT !.pc = "net",
              !.csrf = IF csrfToken THEN TRUE ELSE @,
              !.auth = IF authToken # Null THEN authToken ELSE @,
              !.sends = @ + 1]

\* axiosInstance(config) on the request function base: the default headers (dflt is
\* defaults.headers['Authorization']) are merged under the config's own, then
\* the request interceptor runs up to its first wait for the network:
\* getCsrfToken, then getAuthToken's cache check and, on a miss, its first fetch.
Intercept(base, s, c0, dflt) ==
    LET c == [c0 EXCEPT !.auth = IF @ = Null THEN dflt ELSE @,
                        !.ga = "none", !.gaN = 0, !.delays = 0, !.attempt = 0]
    IN IF CsrfThrows(axCsrfCache)
       THEN /\ req' = [base EXCEPT ![s] = Settled(c, "aborted", s, 0, Null)]
            /\ UNCHANGED csrfVars
       ELSE /\ axCsrfCache' = CsrfCacheAfter(axCsrfCache)
            /\ IF CacheHit
               THEN /\ req' = [base EXCEPT ![s] =
                                 Send([c EXCEPT !.ga = "hit"], getCookieByName,
                                      authTokenCache)]
                    /\ utCsrfCache' = utCsrfCache
                    /\ cookieReads' = cookieReads + CsrfReads(axCsrfCache)
               ELSE /\ req' = [base EXCEPT ![s] = [c EXCEPT !.pc = "fetch", !.gaN = 1]]
                    /\ utCsrfCache' = CsrfCacheAfter(utCsrfCache)
                    /\ cookieReads' = cookieReads + CsrfReads(axCsrfCache)
                                                  + CsrfReads(utCsrfCache)

\* Application code calls axiosInstance(...): its k-th request takes slot k.
Issue(s) ==
    /\ req[s].pc = "idle"
    /\ s > 1 => req[s - 1].pc # "idle"
    /\ Intercept(req, s, req[s], defaultAuth)
    /\ UNCHANGED <<cookie, tokenVars, refreshVars, guard>>

\* ------------------------------------------------------------ getAuthToken
\* fetch('/auth/get-token') answered 2xx with body.token t: lines 63-65, then the
\* request interceptor resumes at line 92.
FetchOk(s, t) ==
    /\ req[s].pc = "fetch"
    /\ authTokenCache' = t
    /\ firstTok' = IF firstTok = Null THEN t ELSE firstTok
    /\ req' = [req EXCEPT ![s] = Send([@ EXCEPT !.ga = "ok"], getCookieByName, t)]
    /\ UNCHANGED <<cookie, csrfVars, refreshVars, guard>>

\* The attempt failed (non-2xx, network error, unparsable body): lines 66-74, and
\* lines 78-79 when the attempts are used up.
FetchFail(s) ==
    /\ req[s].pc = "fetch"
    /\ LET c == [req[s] EXCEPT !.attempt = @ + 1]
       IN IF RetryAgain(c.attempt)
          THEN /\ req' = [req EXCEPT ![s] = [c EXCEPT !.pc = "delay", !.delays = @ + 1]]
          ELSE /\ req' = [req EXCEPT ![s] =
                            Send([c EXCEPT !.ga = "null"], getCookieByName, Null)]
    /\ UNCHANGED <<cookie, csrfVars, tokenVars, refreshVars, guard>>

\* The retry delay (line 72) is over: the loop issues the next fetch.
DelayElapsed(s) ==
    /\ req[s].pc = "delay"
    /\ req' = [req EXCEPT ![s] = [@ EXCEPT !.pc = "fetch", !.gaN = @ + 1]]
    /\ UNCHANGED <<cookie, csrfVars, tokenVars, refreshVars, guard>>

\* ---------------------------------------------------- response interceptor
\* The _retry marker is not consulted.
ShouldRefresh_NoRetryCheck(status, retry) == status = Expired

\* Any error status of a request not yet retried counts as an expired session.
ShouldRefresh_AnyStatus(status, retry) == ~retry

\* Line 113: the error starts, or waits for, a refresh.
ShouldRefresh(status, retry) == status = Expired /\ ~retry

\* The flag is never consulted: every 498 starts a refresh.
RefreshBusy_Ignored == FALSE

\* Line 114: a refresh is under way.
RefreshBusy == isRefreshing

\* The slots whose handler awaits the refresh POST, and the calls that returned.
RefreshInFlight == {x \in Slots : req[x].pc = "refresh"}
RefreshReturns == refreshCalls - Cardinality(RefreshInFlight)

InQueue(x) == \E i \in 1 .. Len(failedQueue) : failedQueue[i] = x

\* The index of x in failedQueue (a promise is pushed once).
QueueIndex(x) == CHOOSE i \in 1 .. Len(failedQueue) : failedQueue[i] = x

\* forEach that walks the array from its end.
Turn_Reversed(x) == Len(failedQueue) + 1 - QueueIndex(x)

\* Line 69: forEach visits the entries in index order.
Turn(x) == QueueIndex(x)

\* processQueue that resolves on success and forgets to reject on failure.
processQueue_NoReject(rq, errSlot, token) ==
    [x \in Slots |->
        IF InQueue(x) /\ token # Null
        THEN [Settled(rq[x], "token", 0, 0, Null) EXCEPT !.q = "ok", !.ord = Turn(x)]
        ELSE rq[x]]

\* processQueue(error, token), lines 68-78, on the request function rq: errSlot is
\* the slot whose error is passed (0: null).
processQueue(rq, errSlot, token) ==
    [x \in Slots |->
        IF ~InQueue(x) THEN rq[x]
        ELSE IF token # Null THEN [Settled(rq[x], "token", 0, 0, Null)
                                     EXCEPT !.q = "ok", !.ord = Turn(x)]
        ELSE IF errSlot # 0 THEN [Settled(rq[x], "rejected", errSlot, Expired, Null)
                                    EXCEPT !.q = "fail", !.ord = Turn(x)]
        ELSE rq[x]]

\* A 2xx response: line 109 hands it to the caller. d is response.data.token,
\* which only the guard's token request reads.
NetOk(s, d) ==
    /\ req[s].pc = "net"
    /\ d # Null <=> s = GTok
    /\ req' = [req EXCEPT ![s] = Settled(@, "response", 0, 0, d)]
    /\ UNCHANGED <<cookie, csrfVars, tokenVars, refreshVars, guard>>

\* An error response: lines 110-123 and 148.
NetFail(s, status) ==
    /\ req[s].pc = "net"
    /\ IF ShouldRefresh(status, req[s].retry)
       THEN /\ late498' = (late498 \/ RefreshReturns > 0)
            /\ IF RefreshBusy
               THEN /\ failedQueue' = Append(failedQueue, s)
                    /\ req' = [req EXCEPT ![s] = Parked(@)]
                    /\ UNCHANGED <<isRefreshing, refreshCalls>>
               ELSE /\ isRefreshing' = TRUE
                    /\ refreshCalls' = refreshCalls + 1
                    /\ req' = [req EXCEPT ![s] = Awaiting(@)]
                    /\ UNCHANGED failedQueue
       ELSE /\ req' = [req EXCEPT ![s] = Settled(@, "rejected", s, status, Null)]
            /\ UNCHANGED <<isRefreshing, failedQueue, refreshCalls, late498>>
    /\ UNCHANGED <<cookie, csrfVars, tokenVars, defaultAuth, redirects, guard>>

\* The flag is cleared after the replay, not in a finally block.
RefreshOk_NoFinally(s, t) ==
    /\ req[s].pc = "refresh"
    /\ IF t # Null
       THEN /\ isRefreshing' = FALSE
            /\ defaultAuth' = t
            /\ failedQueue' = <<>>
            /\ Intercept(processQueue(req, 0, t), s, [req[s] EXCEPT !.auth = t], t)
       ELSE /\ req' = [req EXCEPT ![s] = Settled(@, "rejected", s, Expired, Null)]
            /\ UNCHANGED <<isRefreshing, defaultAuth, failedQueue, csrfVars>>
    /\ UNCHANGED <<cookie, tokenVars, refreshCalls, redirects, late498, guard>>

\* The refresh POST is answered 2xx with body.token t: lines 130-138, 144, 148.
RefreshOk(s, t) ==
    /\ req[s].pc = "refresh"
    /\ isRefreshing' = FALSE
    /\ IF t # Null
       THEN /\ defaultAuth' = t
            /\ failedQueue' = <<>>
            /\ Intercept(processQueue(req, 0, t), s, [req[s] EXCEPT !.auth = t], t)
       ELSE /\ req' = [req EXCEPT ![s] = Settled(@, "rejected", s, Expired, Null)]
            /\ UNCHANGED <<defaultAuth, failedQueue, csrfVars>>
    /\ UNCHANGED <<cookie, tokenVars, refreshCalls, redirects, late498, guard>>

\* The refresh POST failed: lines 139-145 and 148.
RefreshFail(s) ==
    /\ req[s].pc = "refresh"
    /\ isRefreshing' = FALSE
    /\ failedQueue' = <<>>
    /\ redirects' = redirects + 1
    /\ req' = [processQueue(req, s, Null) EXCEPT ![s] =
                 Settled(@, "rejected", s, Expired, Null)]
    /\ UNCHANGED <<cookie, csrfVars, tokenVars, defaultAuth, refreshCalls, late498,
                   guard>>

\* ------------------------------------------------------------ PrivateRoute
\* useEffect runs (lines 93-94, 147): checkAuth calls fetchToken, which calls
\* axiosInstance.get('/auth/get-token').
Mount ==
    /\ guard.pc = "init"
    /\ guard' = [guard EXCEPT !.pc = "token", !.isMounted = TRUE]
    /\ Intercept(req, GTok, req[GTok], defaultAuth)
    /\ UNCHANGED <<cookie, tokenVars, refreshVars>>

\* The cleanup of the effect, lines 149-151. Once checkAuth has returned nothing
\* reads isMounted any more.
Unmount ==
    /\ guard.isMounted
    /\ guard.pc # "done"
    /\ guard' = [guard EXCEPT !.isMounted = FALSE]
    /\ UNCHANGED <<cookie, csrfVars, tokenVars, refreshVars, req>>

\* setIsAuthenticated(v) without the isMounted check.
SetAuthenticated_Unguarded(g, v) == [g EXCEPT !.isAuthenticated = v]

\* Lines 126, 137, 140-141: setIsAuthenticated(v) behind the isMounted check.
SetAuthenticated(g, v) ==
    [g EXCEPT !.isAuthenticated = IF g.isMounted THEN v ELSE @]

\* fetchToken's result, lines 99-116: the token of a 200 response, else null (a
\* promise resolved with a bare string has no status 200).
fetchToken(c) == IF c.out = "response" THEN c.data ELSE Null

\* The token request has settled: lines 122-135.
GuardToken ==
    /\ guard.pc = "token"
    /\ req[GTok].pc = "done"
    /\ LET authToken == fetchToken(req[GTok])
       IN IF authToken = Null
          THEN /\ guard' = [SetAuthenticated(guard, "false") EXCEPT !.pc = "done",
                                                                    !.navs = @ + 1]
               /\ UNCHANGED <<req, csrfVars>>
          ELSE /\ guard' = [guard EXCEPT !.pc = "check"]
               /\ Intercept(req, GChk, [req[GChk] EXCEPT !.auth = authToken],
                            defaultAuth)
    /\ UNCHANGED <<cookie, tokenVars, refreshVars>>

\* The check request has settled: lines 137-143.
GuardCheck ==
    /\ guard.pc = "check"
    /\ req[GChk].pc = "done"
    /\ guard' = IF req[GChk].out \in {"response", "token"}
                THEN [SetAuthenticated(guard, "true") EXCEPT !.pc = "done"]
                ELSE [SetAuthenticated(guard, "false") EXCEPT
                         !.pc = "done",
                         !.navs = IF guard.isMounted THEN @ + 1 ELSE @]
    /\ UNCHANGED <<cookie, csrfVars, tokenVars, refreshVars, req>>

\* ------------------------------------------------------------ specification
\* The application's requests, from page load.
Next ==
    \/ \E s \in 1 .. NReq : Issue(s)
    \/ \E s \in Slots, t \in Tokens : FetchOk(s, t)
    \/ \E s \in Slots : FetchFail(s)
    \/ \E s \in Slots : DelayElapsed(s)
    \/ \E s \in Slots : NetOk(s, Null)
    \/ \E s \in Slots, st \in FailStatuses : NetFail(s, st)
    \/ \E s \in Slots, t \in MaybeToken : RefreshOk(s, t)
    \/ \E s \in Slots : RefreshFail(s)

Spec == Init /\ [][Next]_vars

\* The refresh POST of lines 125-129 is answered or fails.
RefreshReturn ==
    \E s \in Slots : (\E t \in MaybeToken : RefreshOk(s, t)) \/ RefreshFail(s)

\* The same, on the assumption that every refresh call completes.
SpecLive == Init /\ [][Next]_vars /\ WF_vars(RefreshReturn)

\* A herd: with the token cached, NHerd requests are issued before the first
\* refresh call.
IssueEarly(s) == refreshCalls = 0 /\ Issue(s)

NextHerd ==
    \/ \E s \in 1 .. NHerd : IssueEarly(s)
    \/ \E s \in Slots : NetOk(s, Null)
    \/ \E s \in Slots, st \in FailStatuses : NetFail(s, st)
    \/ \E s \in Slots, t \in MaybeToken : RefreshOk(s, t)
    \/ \E s \in Slots : RefreshFail(s)

SpecHerd == InitCached /\ [][NextHerd]_vars

\* The guard, mounted on a fresh page beside NPeers application requests.
NextGuard ==
    \/ \E s \in 1 .. NPeers : Issue(s)
    \/ \E s \in Slots, t \in Tokens : FetchOk(s, t)
    \/ \E s \in Slots : FetchFail(s)
    \/ \E s \in Slots : DelayElapsed(s)
    \/ \E s \in Slots, d \in MaybeToken : NetOk(s, d)
    \/ \E s \in Slots, st \in FailStatuses : NetFail(s, st)
    \/ \E s \in Slots, t \in MaybeToken : RefreshOk(s, t)
    \/ \E s \in Slots : RefreshFail(s)
    \/ Mount
    \/ Unmount
    \/ GuardToken
    \/ GuardCheck

SpecGuard == Init /\ [][NextGuard]_vars

\* ================================================================== claims
\* --- C1 (Spec). Single-flight refresh: at most one POST /auth/refresh-token is
\* in flight at any moment, and a 498 for a request not yet retried that is
\* handled while isRefreshing is true issues no refresh call: the request is
\* appended to the pending queue.
C1_SingleFlight ==
    [][/\ Cardinality(RefreshInFlight') <= 1
       /\ \A s \in Slots :
             (NetFail(s, Expired) /\ isRefreshing /\ ~req[s].retry)
                => /\ refreshCalls' = refreshCalls
                   /\ failedQueue' = Append(failedQueue, s)
                   /\ req'[s].pc = "queued"]_vars

\* A 498 arrived while another request's refresh was in flight.
C1_Witness ==
    \E s, x \in Slots : req[s].pc = "refresh" /\ req[x].pc = "queued"

\* The first response of s was a 498: it started a refresh or was queued.
Got498(s) == req[s].retry \/ req[s].pc = "queued" \/ req[s].q # "no"

\* Every refresh call that has returned brought a token: no redirect, and each
\* request that started a refresh awaits it or has been replayed.
RefreshesSucceeded ==
    /\ redirects = 0
    /\ \A s \in Slots : req[s].retry => (req[s].pc = "refresh" \/ req[s].sends = 2)

Herd == 1 .. NHerd

\* --- C2 (SpecHerd), as claimed. When the requests of the herd, all sent before
\* any refresh starts, each receive a 498 and the refresh endpoint succeeds,
\* exactly one refresh call is made, in every order of arrival.
C2_Original ==
    ((\A s \in Herd : Got498(s)) /\ RefreshesSucceeded) => refreshCalls = 1

\* --- C2 (SpecHerd), amended. The same, provided every one of the 498 responses
\* is handled before the first refresh call has returned.
C2_OneCallWhenHandledDuringRefresh ==
    ((\A s \in Herd : Got498(s)) /\ RefreshesSucceeded /\ ~late498)
        => refreshCalls = 1

\* Three 498s, one refresh that succeeded, the two queued requests resolved.
C2_Witness ==
    /\ \A s \in Herd : Got498(s)
    /\ RefreshesSucceeded /\ ~late498
    /\ defaultAuth # Null
    /\ \E s \in Herd : req[s].retry /\ \A x \in Herd \ {s} : req[x].q = "ok"

\* --- C3 (Spec), as claimed. Once a refresh has succeeded with token T (T is then
\* defaults.headers['Authorization']), every request that leaves the request
\* interceptor, the replay of the triggering request included, carries
\* Authorization: Bearer T, whatever the auth-token cache holds.
C3_Original ==
    [][\A s \in Slots :
          (req'[s].pc = "net" /\ req'[s].sends = req[s].sends + 1
              /\ defaultAuth' # Null)
             => req'[s].auth = defaultAuth']_vars

\* --- C4 (Spec), as claimed. A request that processQueue resolved after a
\* successful refresh has been sent to the network a second time, and its caller
\* holds the HTTP response of that second send.
C4_Original ==
    \A s \in Slots :
        req[s].q = "ok" => (req[s].sends = 2 /\ req[s].out = "response")

\* --- C5 (Spec). The request that starts a refresh is marked retried while the
\* refresh call is out, is put on the wire at most twice and starts at most one
\* refresh call; a 498 for its replay starts no refresh call and is rejected to
\* the caller with that 498.
C5_RetriedOnce ==
    [][/\ \A s \in Slots :
             /\ req'[s].pc = "refresh" => req'[s].retry
             /\ req'[s].sends <= 2
             /\ req'[s].trig <= 1
       /\ \A s \in Slots :
             (NetFail(s, Expired) /\ req[s].retry)
                => /\ refreshCalls' = refreshCalls
                   /\ UNCHANGED <<isRefreshing, failedQueue>>
                   /\ req'[s].pc = "done" /\ req'[s].out = "rejected"
                   /\ req'[s].err = s /\ req'[s].st = Expired]_vars

\* The replay of a request that had started a refresh came back 498 and was
\* rejected.
C5_Witness ==
    \E s \in Slots :
        /\ req[s].pc = "done" /\ req[s].retry /\ req[s].sends = 2 /\ req[s].trig = 1
        /\ req[s].out = "rejected" /\ req[s].err = s /\ req[s].st = Expired

\* --- C6 (Spec). When the refresh call fails, every request in the pending queue
\* is rejected with the triggering request's 498 error, the triggering request
\* is rejected to its caller, the queue is emptied and one redirect to /login
\* is recorded.
C6_RefreshFailure ==
    [][\A s \in Slots :
          RefreshFail(s)
             => /\ redirects' = redirects + 1
                /\ failedQueue' = <<>>
                /\ req'[s].pc = "done" /\ req'[s].out = "rejected"
                /\ req'[s].err = s /\ req'[s].st = Expired
                /\ \A x \in Slots :
                      InQueue(x)
                         => /\ req'[x].pc = "done" /\ req'[x].out = "rejected"
                            /\ req'[x].err = s /\ req'[x].st = Expired]_vars

\* A refresh failed with a request waiting in the queue.
C6_Witness ==
    /\ redirects = 1
    /\ \E s, x \in Slots :
          /\ s # x
          /\ req[s].pc = "done" /\ req[s].retry /\ req[s].sends = 1
          /\ req[s].out = "rejected" /\ req[s].err = s
          /\ req[x].q = "fail" /\ req[x].out = "rejected" /\ req[x].err = s

\* --- C7 (Spec). A getAuthToken call never has more than maxRetries fetches to
\* /auth/get-token behind it; a failed attempt leaves the auth-token cache as it
\* was and is not thrown to the request interceptor; after the last failed
\* attempt the call returns null and the request goes out with the
\* Authorization header it had.
C7_RetryBound ==
    [][/\ \A s \in Slots : req'[s].gaN <= maxRetries
       /\ \A s \in Slots :
             FetchFail(s)
                => /\ authTokenCache' = authTokenCache
                   /\ req'[s].out # "aborted"
                   /\ req'[s].pc \in {"delay", "net"}
                   /\ req'[s].pc = "delay" => req'[s].attempt < maxRetries
                   /\ req'[s].pc = "net"
                         => /\ req'[s].ga = "null"
                            /\ req'[s].attempt = maxRetries
                            /\ req'[s].auth = req[s].auth]_vars

\* A call that started with the cache empty has failed twice and returned null;
\* the cache is still empty.
C7_Witness ==
    /\ authTokenCache = Null
    /\ \E s \in Slots :
          req[s].pc = "net" /\ req[s].ga = "null" /\ req[s].gaN = 2
              /\ req[s].auth = Null

\* A request interceptor starts its getAuthToken call for slot s in this step.
CallStarts(s) ==
    /\ req[s].pc \in {"idle", "refresh"}
    /\ req'[s].pc \in {"fetch", "net"}

\* --- C8 (Spec), as claimed. Once a getAuthToken call has fetched and cached a
\* token (firstTok), every getAuthToken call that starts later returns that
\* token from the cache without a fetch.
C8_Original ==
    [][\A s \in Slots :
          (firstTok # Null /\ CallStarts(s))
             => /\ req'[s].pc = "net"
                /\ req'[s].ga = "hit"
                /\ req'[s].gaN = 0
                /\ req'[s].auth = firstTok]_vars

\* --- C9 (Spec), as claimed. With the XSRF-TOKEN cookie present, the cookie is
\* read and decoded at most once, over the lookups of the request interceptor
\* and of getAuthToken together.
C9_Original == cookieReads <= 1

\* --- C10 (SpecGuard). Once the guard has been unmounted, no later step changes
\* isAuthenticated: not the token-missing path, not a check that succeeded, not
\* a check that failed.
C10_NoSetAfterUnmount ==
    [][(guard.pc # "init" /\ ~guard.isMounted)
          => guard'.isAuthenticated = guard.isAuthenticated]_vars

\* checkAuth ran to its end on each of its three paths after the unmount, and
\* the guard still shows Loading.
C10_WitnessTokenMissing ==
    /\ guard.pc = "done" /\ ~guard.isMounted /\ guard.isAuthenticated = "null"
    /\ fetchToken(req[GTok]) = Null

C10_WitnessCheckDone ==
    /\ guard.pc = "done" /\ ~guard.isMounted /\ guard.isAuthenticated = "null"
    /\ req[GChk].out = "response"

C10_WitnessCheckFailed ==
    /\ guard.pc = "done" /\ ~guard.isMounted /\ guard.isAuthenticated = "null"
    /\ req[GChk].out = "rejected"

C10_Witness ==
    /\ guard.pc = "done" /\ ~guard.isMounted /\ guard.isAuthenticated = "null"
    /\ req[GChk].pc = "done"

\* --- C11 (SpecGuard), as claimed. The guard shows Loading until checkAuth has
\* run to its end; it shows Authenticated only if its /account/check-auth call
\* settled with an HTTP success response; on every other end (token missing,
\* check failed) a guard that is still mounted shows Unauthenticated and has
\* issued one redirect to /login.
C11_Original ==
    /\ guard.pc # "done" => guard.isAuthenticated = "null"
    /\ guard.isAuthenticated = "true" => req[GChk].out = "response"
    /\ (guard.pc = "done" /\ guard.isMounted /\ req[GChk].out # "response")
          => (guard.isAuthenticated = "false" /\ guard.navs = 1)

\* The request of slot s leaves the request interceptor in this step.
Leaves(s) == req'[s].pc = "net" /\ req'[s].sends = req[s].sends + 1

\* --- C12 (Spec). The request interceptor rejects a request only when the cookie
\* lookup throws, never because a credential is absent. A request that leaves
\* it carries X-CSRF-Token exactly when the cookie is present; when
\* getAuthToken returned null its Authorization header is what it was before
\* (none, for a request that had none), otherwise it is the token getAuthToken
\* returned.
C12_AbsenceTolerated ==
    [][\A s \in Slots :
          /\ (req'[s].out = "aborted" /\ req[s].out # "aborted") => CookieThrows
          /\ Leaves(s)
                => /\ req'[s].csrf = getCookieByName
                   /\ req'[s].ga = "null" => req'[s].auth = req[s].auth
                   /\ req'[s].ga # "null" => req'[s].auth = authTokenCache']_vars

\* No cookie and no token: the request is on the wire with neither header.
C12_WitnessNeither ==
    \E s \in Slots :
        /\ cookie = "none" /\ req[s].pc = "net" /\ req[s].ga = "null"
        /\ ~req[s].csrf /\ req[s].auth = Null

\* One credential absent: the request is on the wire with the other header.
C12_WitnessCsrfOnly ==
    \E s \in Slots :
        req[s].pc = "net" /\ req[s].ga = "null" /\ req[s].csrf /\ req[s].auth = Null

C12_WitnessAuthOnly ==
    \E s \in Slots :
        /\ cookie = "none" /\ req[s].pc = "net" /\ req[s].ga = "ok"
        /\ ~req[s].csrf /\ req[s].auth # Null

\* --- C13 (Spec). A refresh call is issued only by the handling of a 498 whose
\* request is not marked retried. An error response with another status, or
\* for a request already retried, is rejected to the caller with its own error
\* and leaves isRefreshing, the pending queue and the refresh calls as they
\* were.
C13_SoleTrigger ==
    [][/\ refreshCalls' # refreshCalls
             => \E s \in Slots :
                   /\ NetFail(s, Expired) /\ ~req[s].retry
                   /\ refreshCalls' = refreshCalls + 1
       /\ \A s \in Slots, status \in FailStatuses :
             (NetFail(s, status) /\ (status # Expired \/ req[s].retry))
                => /\ req'[s].pc = "done" /\ req'[s].out = "rejected"
                   /\ req'[s].err = s /\ req'[s].st = status
                   /\ UNCHANGED <<isRefreshing, failedQueue, refreshCalls>>]_vars

\* A request failed with another status while a refresh was in flight: it was
\* rejected with that status.
C13_Witness ==
    /\ isRefreshing
    /\ \E s \in Slots :
          /\ req[s].pc = "done" /\ req[s].out = "rejected" /\ req[s].err = s
          /\ req[s].st \in FailStatuses \ {Expired} /\ ~req[s].retry

\* --- C14 (Spec), as claimed. Whenever isRefreshing is false the pending queue
\* is empty, whatever the outcome of the refresh was.
C14_Original == ~isRefreshing => failedQueue = <<>>

\* --- C15 (SpecLive), as claimed. With every refresh call completing, a request
\* parked in the pending queue is settled at last, and it is settled by the
\* step that concludes the refresh during which it was queued.
C15_Original ==
    /\ \A x \in Slots : (req[x].pc = "queued") ~> (req[x].pc = "done")
    /\ [][\A x \in Slots :
             (InQueue(x) /\ isRefreshing /\ ~isRefreshing') => req'[x].pc = "done"]_vars

\* --- C16 (SpecLive). The step that completes a refresh call (with a token,
\* without one, or failed) leaves isRefreshing false, and with every refresh
\* call completing isRefreshing = TRUE leads to isRefreshing = FALSE.
C16_BackToIdle ==
    /\ isRefreshing ~> ~isRefreshing
    /\ [][\A s \in Slots :
             ((\E t \in MaybeToken : RefreshOk(s, t)) \/ RefreshFail(s))
                => ~isRefreshing']_vars

\* A refresh was answered without a token, the coordinator went back to Idle
\* and a later 498 has started a second refresh.
C16_Witness ==
    /\ refreshCalls = 2 /\ isRefreshing /\ redirects = 0
    /\ \E s \in Slots :
          /\ req[s].pc = "done" /\ req[s].retry /\ req[s].sends = 1
          /\ req[s].out = "rejected"

\* --- C17 (SpecHerd). A parked request leaves the pending queue only in the step
\* that handles the answer of a refresh call, settled by processQueue; the
\* requests that step settles are settled in the order in which they were
\* queued.
C17_Fifo ==
    [][/\ \A x \in Slots :
             (req[x].pc = "queued" /\ req'[x].pc # "queued")
                => /\ RefreshReturn
                   /\ req'[x].pc = "done" /\ req'[x].q \in {"ok", "fail"}
       /\ \A x, y \in Slots :
             (InQueue(x) /\ InQueue(y) /\ QueueIndex(x) < QueueIndex(y)
                 /\ req'[x].pc = "done")
                => /\ req'[y].pc = "done"
                   /\ req'[x].ord < req'[y].ord]_vars

\* Two requests were queued against their order of issue and resolved in the
\* order of queueing.
C17_Witness ==
    \E x, y \in Slots :
        /\ x > y
        /\ req[x].q = "ok" /\ req[x].ord = 1
        /\ req[y].q = "ok" /\ req[y].ord = 2

\* The getAuthToken calls that await their fetch of /auth/get-token.
FetchInFlight == {s \in Slots : req[s].pc = "fetch"}

\* --- C18 (Spec), as claimed. At most one fetch of /auth/get-token issued by
\* getAuthToken is in flight at any time, also when several getAuthToken calls
\* start while the auth-token cache is empty.
C18_Original == Cardinality(FetchInFlight) <= 1

\* --- C19 (SpecGuard), as claimed. Once the guard has been unmounted before
\* checkAuth has run to its end, no later step of the guard issues a redirect
\* to /login, on the token-missing path as on the check-failed path.
C19_Original ==
    [][(guard.pc # "init" /\ ~guard.isMounted) => guard'.navs = guard.navs]_vars

\* --- C20 (Spec). A getAuthToken call waits the retry delay only between its
\* failed first attempt and its second attempt: never more than
\* maxRetries - 1 times, not after the last failed attempt (a call that
\* returns null has waited once, with maxRetries fetches behind it), and not
\* at all when the cache or the first attempt gave the token.
C20_OneDelay ==
    \A s \in Slots :
        /\ req[s].delays <= maxRetries - 1
        /\ req[s].pc = "delay"
              => (req[s].attempt = 1 /\ req[s].gaN = 1 /\ req[s].delays = 1)
        /\ req[s].ga = "null"
              => (req[s].gaN = maxRetries /\ req[s].delays = maxRetries - 1)
        /\ (req[s].ga = "ok" /\ req[s].gaN = 1) => req[s].delays = 0
        /\ req[s].ga = "hit" => (req[s].gaN = 0 /\ req[s].delays = 0)

\* Both attempts of a call failed: it has returned null after one delay.
C20_Witness ==
    \E s \in Slots :
        /\ req[s].pc = "net" /\ req[s].ga = "null"
        /\ req[s].attempt = maxRetries /\ req[s].delays = 1
====
